---- MODULE Spec2Model ----
(***************************************************************************)
(* The news page of ai-news-agent-poc: a remote read of the `articles`     *)
(* collection, a client-side sort chosen by a selector, and a render into  *)
(* a display region; plus the daily briefing lookup.                       *)
(*                                                                         *)
(* The repository holds three variants of the page script:                 *)
(*   "script.js"  src/frontend/script.js                                   *)
(*   "part_000"   src/unnamed/part_000   (articles and daily briefing)     *)
(*   "part_001"   src/unnamed/part_001                                     *)
(* The variable `variant` says which of them the page runs; it never       *)
(* changes.  Every operator that differs between the variants takes the    *)
(* variant as its first parameter.                                         *)
(*                                                                         *)
(* The page is single-threaded: an async handler runs up to its `await`,   *)
(* and its continuation runs as one step when the remote read settles.     *)
(* Rows are JSON objects as returned by select('*'): every column is       *)
(* present and a missing value is JSON null.                               *)
(***************************************************************************)
EXTENDS Integers, Sequences, FiniteSets

VARIABLES
    variant,            \* which page script is loaded
    sortOrderSelect,    \* sortOrderSelect.value
    newsContainer,      \* newsContainer.innerHTML, as [text, cards]
    briefingContainer,  \* briefingContainer.innerHTML, as [text, sections]
    pending,            \* article reads in flight, oldest first: the suspended handlers
    briefingPending,    \* TRUE while fetchDailyBriefing is suspended at its await
    last,               \* the page script's most recent step and the locals it ran with
    lastBriefing,       \* { data, error } that fetchDailyBriefing resumed with
    lastRender,         \* arguments of the most recent render that painted the region
    newestOutcome       \* what the most recently started articles load wrote, once settled

vars == << variant, sortOrderSelect, newsContainer, briefingContainer, pending,
           briefingPending, last, lastBriefing, lastRender, newestOutcome >>

-----------------------------------------------------------------------------
(* Bounds *)

\* rows of the remote table in the page specification (Spec)
NumArticles == 2
\* article reads in flight at once
MaxInFlight == 2
\* rows of one response in the sort specification (SpecSort)
MaxLen == 3
\* items of a briefing's list fields
MaxItems == 2

-----------------------------------------------------------------------------
(* Values *)

\* JSON null; distinct from every string a row can hold
Null == "<null>"

Variants == {"script.js", "part_000", "part_001"}

\* the selector's options; "default" stands for any value the switch has no case for
SortOrders == {"published_date_desc", "published_date_asc", "source_asc", "default"}

Sources == {Null, "Alpha", "Zeta"}

PublishedDates == {Null, "1969-12-31", "2024-01-01", "2024-01-02"}

\* new Date(isoString).getTime(), in days since the epoch
EpochDays(s) ==
    CASE s = "1969-12-31" -> -1
      [] s = "2024-01-01" -> 19723
      [] s = "2024-01-02" -> 19724

\* (mutant of NewDate: null is taken for a date later than every other)
NewDateNullInvalid(x) == IF x = Null THEN 99999 ELSE EpochDays(x)

\* new Date(x) for a column value: new Date(null) is the epoch
NewDate(x) == IF x = Null THEN 0 ELSE EpochDays(x)

\* x ? new Date(x) : new Date(0)
DateOrEpoch(x) == IF x = Null \/ x = "" THEN 0 ELSE NewDate(x)

\* String(x) as localeCompare applies it to its argument, and `${x}` in a template
StringOf(x) == IF x = Null THEN "null" ELSE x

\* x || ''
OrEmpty(x) == IF x = Null THEN "" ELSE x

\* position of a string in the default collation (case-insensitive at first level)
CollationRank(s) ==
    CASE s = "" -> 0
      [] s = "Alpha" -> 1
      [] s = "null" -> 2
      [] s = "Unknown" -> 3
      [] s = "Zeta" -> 4

\* x.localeCompare(y), x and y strings
LocaleCompare(x, y) == CollationRank(x) - CollationRank(y)

\* new Date(s).toLocaleDateString(undefined, {year, month: 'long', day, hour, minute})
ToLocaleDateString(s) ==
    CASE s = "1969-12-31" -> "December 31, 1969 at 12:00 AM"
      [] s = "2024-01-01" -> "January 1, 2024 at 12:00 AM"
      [] s = "2024-01-02" -> "January 2, 2024 at 12:00 AM"

-----------------------------------------------------------------------------
(* Sorting *)

\* the comparator of the switch in renderNews / renderAggregatedNews;
\* "default" has no comparator (the array is left as fetched)
Compare(v, order, a, b) ==
    CASE order = "published_date_asc" ->
           IF v = "part_000"
           THEN DateOrEpoch(a.published_date) - DateOrEpoch(b.published_date)
           ELSE NewDate(a.published_date) - NewDate(b.published_date)
      [] order = "published_date_desc" ->
           IF v = "script.js"
           THEN NewDate(b.published_date) - NewDate(a.published_date)
           ELSE DateOrEpoch(b.published_date) - DateOrEpoch(a.published_date)
      [] order = "source_asc" ->
           IF v = "script.js"
           THEN LocaleCompare(a.source, StringOf(b.source))
           ELSE LocaleCompare(OrEmpty(a.source), OrEmpty(b.source))

\* a.source.localeCompare(...) with a.source null is a TypeError.  Array.prototype.sort
\* passes every element but the first as `a` (run counting and binary insertion compare
\* the later element against an earlier one), and never the first.
SortThrows(v, articles, order) ==
    /\ v = "script.js"
    /\ order = "source_asc"
    /\ \E i \in 2..Len(articles) : articles[i].source = Null

\* x put after every element it does not sort before: the binary insertion of a stable sort
RECURSIVE InsertSorted(_, _, _, _)
InsertSorted(v, order, sorted, x) ==
    IF sorted = <<>> THEN <<x>>
    ELSE IF Compare(v, order, x, sorted[Len(sorted)]) < 0
         THEN Append(InsertSorted(v, order, SubSeq(sorted, 1, Len(sorted) - 1), x),
                     sorted[Len(sorted)])
         ELSE Append(sorted, x)

RECURSIVE StableSort(_, _, _)
StableSort(v, order, articles) ==
    IF articles = <<>> THEN <<>>
    ELSE InsertSorted(v, order,
                      StableSort(v, order, SubSeq(articles, 1, Len(articles) - 1)),
                      articles[Len(articles)])

\* let sortedArticles = [...articles]; switch (sortOrder) { ... }
SortedArticles(v, order, articles) ==
    IF order \in {"published_date_asc", "published_date_desc", "source_asc"}
    THEN StableSort(v, order, articles)
    ELSE articles

-----------------------------------------------------------------------------
(* The articles region *)

\* newsContainer.innerHTML = '<p>text</p>'
Message(text) == [text |-> text, cards |-> <<>>]

\* newsContainer.innerHTML = ''
Cleared == [text |-> "", cards |-> <<>>]

LoadingText(v) == IF v = "part_000" THEN "Loading news articles..." ELSE "Loading news..."

FailedText(v) ==
    IF v = "part_000"
    THEN "Failed to load news articles. Please try again later."
    ELSE "Failed to load news. Please try again later."

EmptyText(v) ==
    IF v = "part_000"
    THEN "No relevant news articles found today."
    ELSE "No relevant news found today."

\* the card built in the forEach body: what the template prints of the article
NewsCard(v, article) ==
    [ id        |-> article.id,
      source    |-> IF v = "script.js"
                    THEN StringOf(article.source)
                    ELSE IF article.source = Null \/ article.source = ""
                         THEN "Unknown" ELSE article.source,
      published |-> IF article.published_date = Null \/ article.published_date = ""
                    THEN "N/A"
                    ELSE ToLocaleDateString(article.published_date) ]

\* sortedArticles.forEach(article => { ...; newsContainer.innerHTML += newsCard; })
RECURSIVE AppendCards(_, _, _)
AppendCards(v, region, articles) ==
    IF articles = <<>> THEN region
    ELSE LET before == AppendCards(v, region, SubSeq(articles, 1, Len(articles) - 1))
         IN  [before EXCEPT !.cards = Append(@, NewsCard(v, articles[Len(articles)]))]

\* (mutant of Paint: the region is not cleared before the cards are appended)
PaintKeepingOld(v, region, sorted) == AppendCards(v, region, sorted)

\* newsContainer.innerHTML = ''; sortedArticles.forEach(...)
Paint(v, region, sorted) == AppendCards(v, Cleared, sorted)

\* renderNews(articles) / renderAggregatedNews(articles) on the region as it stands,
\* with the selector at `order`: the region afterwards, whether the DOM was written,
\* and whether the call threw (a throw in the sort leaves the region as it was)
Render(v, region, articles, order) ==
    IF SortThrows(v, articles, order)
    THEN [region |-> region, painted |-> FALSE, threw |-> TRUE]
    ELSE [region |-> Paint(v, region, SortedArticles(v, order, articles)),
          painted |-> TRUE, threw |-> FALSE]

Untouched(region) == [region |-> region, painted |-> FALSE, threw |-> FALSE]

\* the response of a remote read of `articles`: { data, error }
\* (error is the error message or null; data is null, written <<>>, when error is set)
Failure == [error |-> "remote read failed", data |-> <<>>]
Rows(articles) == [error |-> Null, data |-> articles]

\* fetchNews / fetchNewsAndRender / fetchAndRenderAggregatedNews after the await
FetchContinuation(v, region, resp, order) ==
    IF resp.error # Null
    THEN [region |-> Message(FailedText(v)), painted |-> FALSE, threw |-> FALSE]
    ELSE IF Len(resp.data) = 0
         THEN [region |-> Message(EmptyText(v)), painted |-> FALSE, threw |-> FALSE]
         ELSE Render(v, region, resp.data, order)

\* the change listener of script.js after its await: if (!error && articles) renderNews(articles)
ListenerContinuation(v, region, resp, order) ==
    IF resp.error = Null
    THEN Render(v, region, resp.data, order)
    ELSE Untouched(region)

\* the function registered for 'change' on the selector
ChangeHandler(v) ==
    CASE v = "script.js" -> "change listener"
      [] v = "part_000"  -> "fetchAndRenderAggregatedNews"
      [] v = "part_001"  -> "fetchNewsAndRender"

\* the function called at the end of the script
InitialHandler(v) ==
    CASE v = "script.js" -> "fetchNews"
      [] v = "part_000"  -> "fetchAndRenderAggregatedNews"
      [] v = "part_001"  -> "fetchNewsAndRender"

\* a handler up to its await: every handler but script.js's listener shows the placeholder
BeforeAwait(v, handler, region) ==
    IF handler = "change listener" THEN region ELSE Message(LoadingText(v))

Continuation(v, handler, region, resp, order) ==
    IF handler = "change listener"
    THEN ListenerContinuation(v, region, resp, order)
    ELSE FetchContinuation(v, region, resp, order)

-----------------------------------------------------------------------------
(* The briefing region (part_000 only) *)

BriefingMessage(text) == [text |-> text, sections |-> <<>>]

BriefingLoadingText == "Loading daily briefing..."
BriefingFailedText == "Failed to load daily briefing."
NoBriefingText == "No AI briefing available for today yet. Check back later!"

Section(heading, paragraph, items) == [h |-> heading, p |-> paragraph, items |-> items]

\* renderBriefing(briefing): the html built section by section, then assigned once
RenderBriefing(briefing) ==
    [ text |-> "",
      sections |->
           << Section(IF briefing.title = Null \/ briefing.title = ""
                      THEN "AI Morning Briefing" ELSE briefing.title, "", <<>>),
              Section("Executive Summary:",
                      IF briefing.summary_text = Null \/ briefing.summary_text = ""
                      THEN "No summary available." ELSE briefing.summary_text, <<>>) >>
        \o (IF Len(briefing.key_developments) > 0
            THEN << Section("Key Developments:", "", briefing.key_developments) >>
            ELSE <<>>)
        \o (IF briefing.strategic_implications # Null /\ briefing.strategic_implications # ""
            THEN << Section("Strategic Implications for New Economy Canada:",
                            briefing.strategic_implications, <<>>) >>
            ELSE <<>>)
        \o (IF briefing.suggested_reactions # Null /\ briefing.suggested_reactions # ""
            THEN << Section("Suggested Reactions:", briefing.suggested_reactions, <<>>) >>
            ELSE <<>>)
        \o (IF Len(briefing.related_article_urls) > 0
            THEN << Section("Relevant Article URLs:", "", briefing.related_article_urls) >>
            ELSE <<>>) ]

\* (mutant of BriefingContinuation: the 'no rows' code is taken for a failure)
BriefingContinuationCollapsed(resp) ==
    IF resp.error # Null
    THEN BriefingMessage(BriefingFailedText)
    ELSE IF resp.data # <<>>
         THEN RenderBriefing(resp.data[1])
         ELSE BriefingMessage(NoBriefingText)

\* fetchDailyBriefing after the await.  resp is { data: briefing, error }: error is the
\* error code or null, data is the row in a sequence, <<>> for null.
BriefingContinuation(resp) ==
    IF resp.error # Null /\ resp.error # "PGRST116"
    THEN BriefingMessage(BriefingFailedText)
    ELSE IF resp.data # <<>>
         THEN RenderBriefing(resp.data[1])
         ELSE BriefingMessage(NoBriefingText)

-----------------------------------------------------------------------------
(* What the remote reads can return *)

\* the rows the remote `articles` table can hold in the page specification: between
\* them a missing source, a missing date, and from the fourth row on equal keys
SourceCycle == << "Zeta", Null, "Alpha" >>
DateCycle == << Null, "2024-01-02", "2024-01-01", "1969-12-31" >>
TableRow(i) ==
    [ id |-> i,
      source |-> SourceCycle[((i - 1) % Len(SourceCycle)) + 1],
      published_date |-> DateCycle[((i - 1) % Len(DateCycle)) + 1] ]

\* any rows of the table, in any order (the table changes between reads and the
\* read asks for no order)
TableReads ==
    UNION { { s \in [1..k -> 1..NumArticles] :
                \A i, j \in 1..k : i # j => s[i] # s[j] } : k \in 0..NumArticles }

ArticleResponses ==
    {Failure} \cup { Rows([i \in 1..Len(s) |-> TableRow(s[i])]) : s \in TableReads }

\* every sequence of up to MaxLen rows over all sources and dates; the id is the
\* row's position in the response
AnyRows ==
    UNION { { [i \in 1..k |-> [id |-> i, source |-> f[i][1], published_date |-> f[i][2]]] :
                f \in [1..k -> Sources \X PublishedDates] } : k \in 0..MaxLen }

AnyArticleResponses == {Failure} \cup { Rows(r) : r \in AnyRows }

Items(k) == [i \in 1..k |-> i]

Briefings ==
    [ title : {Null, "Daily AI Briefing"},
      summary_text : {Null, "summary"},
      key_developments : { Items(k) : k \in 0..MaxItems },
      strategic_implications : {Null, "implications"},
      suggested_reactions : {Null, "reactions"},
      related_article_urls : { Items(k) : k \in 0..MaxItems } ]

\* "PGRST116" is the remote's code for 'no rows'
BriefingErrorCodes == {"PGRST116", "PGRST301", "08006"}

\* a read that finds no row or fails: { data: null, error }
BriefingMisses == { [error |-> c, data |-> <<>>] : c \in BriefingErrorCodes \cup {Null} }

BriefingResponses == { [error |-> Null, data |-> <<b>>] : b \in Briefings } \cup BriefingMisses

\* the rows the remote `daily_briefings` table can hold for today in the page
\* specification: one with every optional field missing, one with every field set
BareBriefing ==
    [ title |-> Null, summary_text |-> Null, key_developments |-> <<>>,
      strategic_implications |-> Null, suggested_reactions |-> Null,
      related_article_urls |-> <<>> ]
FullBriefing ==
    [ title |-> "Daily AI Briefing", summary_text |-> "summary",
      key_developments |-> Items(MaxItems),
      strategic_implications |-> "implications", suggested_reactions |-> "reactions",
      related_article_urls |-> Items(MaxItems) ]

TodaysBriefingResponses ==
    { [error |-> Null, data |-> <<b>>] : b \in {BareBriefing, FullBriefing} }
    \cup BriefingMisses

-----------------------------------------------------------------------------
(* The page *)

\* the script has run to its end: fetchNews() (and in part_000 fetchDailyBriefing())
\* have shown their placeholders and are suspended at their awaits.  The selector holds
\* whatever the document, or the browser restoring the form, selected.
Init ==
    /\ variant \in Variants
    /\ sortOrderSelect \in SortOrders
    /\ newsContainer = BeforeAwait(variant, InitialHandler(variant), Cleared)
    /\ pending = << [handler |-> InitialHandler(variant)] >>
    /\ briefingContainer = IF variant = "part_000"
                           THEN BriefingMessage(BriefingLoadingText)
                           ELSE BriefingMessage("")
    /\ briefingPending = (variant = "part_000")
    /\ last = [step |-> "load", handler |-> InitialHandler(variant),
               error |-> Null, articles |-> <<>>, threw |-> FALSE]
    /\ lastBriefing = [error |-> Null, data |-> <<>>]
    /\ lastRender = [articles |-> <<>>, order |-> "none"]
    /\ newestOutcome = [settled |-> FALSE, region |-> Cleared]

\* (mutant of SortChange: the listener re-renders the rows last painted, when there
\* are any, and issues no read)
SortChangeCached(value) ==
    /\ value # sortOrderSelect
    /\ Len(pending) < MaxInFlight
    /\ sortOrderSelect' = value
    /\ newsContainer' = IF lastRender.articles # <<>>
                        THEN Render(variant, newsContainer, lastRender.articles, value).region
                        ELSE BeforeAwait(variant, ChangeHandler(variant), newsContainer)
    /\ pending' = IF lastRender.articles # <<>> THEN pending
                  ELSE Append(pending, [handler |-> ChangeHandler(variant)])
    /\ last' = [step |-> "change", handler |-> ChangeHandler(variant),
                error |-> Null, articles |-> <<>>, threw |-> FALSE]
    /\ UNCHANGED << variant, briefingContainer, briefingPending, lastBriefing,
                    lastRender, newestOutcome >>

\* the user picks another option: the 'change' listener runs up to its await
SortChange(value) ==
    /\ value # sortOrderSelect
    /\ Len(pending) < MaxInFlight
    /\ sortOrderSelect' = value
    /\ newsContainer' = BeforeAwait(variant, ChangeHandler(variant), newsContainer)
    /\ pending' = Append(pending, [handler |-> ChangeHandler(variant)])
    /\ last' = [step |-> "change", handler |-> ChangeHandler(variant),
                error |-> Null, articles |-> <<>>, threw |-> FALSE]
    /\ newestOutcome' = [settled |-> FALSE, region |-> Cleared]
    /\ UNCHANGED << variant, briefingContainer, briefingPending, lastBriefing, lastRender >>

\* the i-th read in flight settles with resp: its handler's continuation runs to the end
Resume(i, resp) ==
    /\ i \in 1..Len(pending)
    /\ LET handler == pending[i].handler
           out == Continuation(variant, handler, newsContainer, resp, sortOrderSelect)
       IN  /\ newsContainer' = out.region
           /\ last' = [step |-> "resume", handler |-> handler,
                       error |-> resp.error, articles |-> resp.data, threw |-> out.threw]
           /\ lastRender' = IF out.painted
                            THEN [articles |-> resp.data, order |-> sortOrderSelect]
                            ELSE lastRender
           /\ newestOutcome' = IF i = Len(pending) /\ ~newestOutcome.settled
                               THEN [settled |-> TRUE, region |-> out.region]
                               ELSE newestOutcome
    /\ pending' = SubSeq(pending, 1, i - 1) \o SubSeq(pending, i + 1, Len(pending))
    /\ UNCHANGED << variant, sortOrderSelect, briefingContainer, briefingPending,
                    lastBriefing >>

\* an articles read settles, in whatever order the remote answers
SettleArticles == \E i \in 1..Len(pending) : \E resp \in ArticleResponses : Resume(i, resp)

UserSortChange == \E value \in SortOrders : SortChange(value)

\* the page's first articles read settles with any rows at all
SettleInitialLoad ==
    /\ last.step = "load"
    /\ \E resp \in AnyArticleResponses : Resume(1, resp)

\* the briefing read settles with resp: fetchDailyBriefing's continuation runs to the end
ResumeBriefing(resp) ==
    /\ briefingPending
    /\ briefingContainer' = BriefingContinuation(resp)
    /\ lastBriefing' = resp
    /\ briefingPending' = FALSE
    /\ UNCHANGED << variant, sortOrderSelect, newsContainer, pending, last, lastRender,
                    newestOutcome >>

\* the briefing read settles, at any point among the articles events
SettleBriefing == \E resp \in TodaysBriefingResponses : ResumeBriefing(resp)

\* the briefing read settles with any briefing row at all
SettleAnyBriefing == \E resp \in BriefingResponses : ResumeBriefing(resp)

\* the page: sort-order changes, and the articles reads and the briefing read settling
\* in any order
Next == UserSortChange \/ SettleArticles \/ SettleBriefing

Spec == Init /\ [][Next]_vars

\* the render and its sort over every input: the behaviours of the page in which the
\* first articles read settles, with rows drawn from all of AnyRows, and nothing else
\* has happened yet
NextSort == SettleInitialLoad

SpecSort == Init /\ [][NextSort]_vars

\* the briefing lookup over every input: the behaviours of the page in which the
\* briefing read settles, with a row drawn from all of Briefings, and nothing else
\* has happened yet
NextBriefing == SettleAnyBriefing

SpecBriefing == Init /\ [][NextBriefing]_vars

-----------------------------------------------------------------------------
(* What the articles region shows *)

ShowsLoading == newsContainer = Message(LoadingText(variant))
ShowsFailed == newsContainer = Message(FailedText(variant))
ShowsEmpty == newsContainer = Message(EmptyText(variant))
ShowsList == newsContainer.text = "" /\ newsContainer.cards # <<>>

\* the article a displayed card was made from, looked up by id among `articles`
ArticleOfCard(articles, card) ==
    CHOOSE a \in { articles[k] : k \in 1..Len(articles) } : a.id = card.id

\* the sort keys of the specification's table: a missing date is the epoch, a missing
\* source the empty string
EpochKey(a) == IF a.published_date = Null THEN 0 ELSE EpochDays(a.published_date)
SourceKey(a) == CollationRank(IF a.source = Null THEN "" ELSE a.source)

\* the cards, made from `articles`, stand in the order `order` asks for
OrderedBy(order, articles, cards) ==
    \A i, j \in 1..Len(cards) :
        i < j =>
          LET x == ArticleOfCard(articles, cards[i])
              y == ArticleOfCard(articles, cards[j])
          IN  CASE order = "published_date_asc"  -> EpochKey(x) <= EpochKey(y)
                [] order = "published_date_desc" -> EpochKey(x) >= EpochKey(y)
                [] order = "source_asc"          -> SourceKey(x) <= SourceKey(y)
                [] OTHER -> TRUE

\* the cards are one card per article of `articles`, none twice, none from elsewhere
OneCardPerArticle(articles, cards) ==
    /\ Len(cards) = Len(articles)
    /\ \A k \in 1..Len(articles) :
          Cardinality({ i \in 1..Len(cards) : cards[i].id = articles[k].id }) = 1
    /\ \A i \in 1..Len(cards) :
          \E k \in 1..Len(articles) : cards[i] = NewsCard(variant, articles[k])

-----------------------------------------------------------------------------
(* Claims *)

\* C1: every articles load shows the loading placeholder when it starts; once its read
\* has settled the region shows the failure message, the empty-state message or the
\* rendered list; and with no load in flight the region never shows the placeholder.
C1_LoadingAlwaysReplaced ==
    /\ last.step \in {"load", "change"} => ShowsLoading
    /\ last.step = "resume" => (ShowsFailed \/ ShowsEmpty \/ ShowsList)
    /\ pending = <<>> => ~ShowsLoading

\* C2: the briefing load tells three outcomes apart: one row renders the briefing; no
\* row (the 'no rows' code, or neither error nor row) shows the 'no briefing' message;
\* any other error shows the failure message.
C2_BriefingThreeOutcomes ==
    (variant = "part_000" /\ ~briefingPending) =>
        LET error == lastBriefing.error
            data == lastBriefing.data
        IN  /\ (error = Null /\ data # <<>>) =>
                  /\ briefingContainer.text = ""
                  /\ Len(briefingContainer.sections) >= 2
                  /\ briefingContainer.sections[1].h \in {data[1].title, "AI Morning Briefing"}
                  /\ briefingContainer.sections[2].p
                        \in {data[1].summary_text, "No summary available."}
            /\ (data = <<>> /\ error \in {Null, "PGRST116"}) =>
                  /\ briefingContainer.text = NoBriefingText
                  /\ briefingContainer.sections = <<>>
            /\ (error \notin {Null, "PGRST116"}) =>
                  /\ briefingContainer.text = BriefingFailedText
                  /\ briefingContainer.sections = <<>>

\* a 'no rows' answer has been shown as 'no briefing available'
C2_Witness ==
    /\ variant = "part_000"
    /\ ~briefingPending
    /\ lastBriefing.error = "PGRST116"
    /\ briefingContainer = BriefingMessage(NoBriefingText)

\* C3: whenever a remote read settles with an error, its handler has written the
\* failure message to its region by the time it returns.
C3_NoErrorDropped ==
    /\ (last.step = "resume" /\ last.error # Null) => ShowsFailed
    /\ (~briefingPending /\ lastBriefing.error \notin {Null, "PGRST116"}) =>
          briefingContainer = BriefingMessage(BriefingFailedText)

\* C4: an articles read that succeeds with zero rows leaves the region showing the
\* empty-state message, whichever handler issued it.
C4_ZeroRowsShowEmptyState ==
    (last.step = "resume" /\ last.error = Null /\ last.articles = <<>>) => ShowsEmpty

\* C5 as claimed: a sort-order change made while the region shows a populated list
\* issues no remote read.
C5_SortChangeReusesHeldArticles ==
    [][ (sortOrderSelect' # sortOrderSelect /\ newsContainer.cards # <<>>)
            => pending' = pending ]_vars

\* C5 as amended: every sort-order change issues one new remote read, handled by the
\* change handler, and paints no list itself: the region is left as it was or shows the
\* loading placeholder, and the re-sorted list appears only when the read settles.
C5_SortChangeAlwaysReads ==
    [][ (sortOrderSelect' # sortOrderSelect)
            => /\ Len(pending') = Len(pending) + 1
               /\ SubSeq(pending', 1, Len(pending)) = pending
               /\ pending'[Len(pending')].handler = ChangeHandler(variant)
               /\ \/ newsContainer' = newsContainer
                  \/ newsContainer' = Message(LoadingText(variant)) ]_vars

\* the region shows a populated list, and the read a sort-order change has just issued
\* is the only one in flight
C5_Witness ==
    /\ last.step = "change"
    /\ Len(pending) = 1
    /\ newsContainer.cards # <<>>

\* C6: whenever the region holds cards, they are exactly one card per article of the
\* most recently painted result and nothing else, and rendering that result again on
\* the region as it stands gives the same region.
C6_RenderReplaces ==
    (newsContainer.cards # <<>>) =>
        /\ newsContainer.text = ""
        /\ OneCardPerArticle(lastRender.articles, newsContainer.cards)
        /\ Render(variant, newsContainer, lastRender.articles, lastRender.order).region
              = newsContainer

\* the newest load painted a list, and an older load settling after it painted a
\* shorter one in its place
C6_Witness ==
    /\ newestOutcome.settled
    /\ newestOutcome.region.cards # <<>>
    /\ newsContainer.cards # <<>>
    /\ Len(newsContainer.cards) < Len(newestOutcome.region.cards)
    /\ pending = <<>>

\* C7: after a load rendered under a date order, the cards stand in the order of the
\* publish timestamps with a missing timestamp counted as the epoch: ascending under
\* published_date_asc, descending under published_date_desc.
C7_MissingDateIsEpoch ==
    (/\ last.step = "resume"
     /\ last.error = Null
     /\ last.articles # <<>>
     /\ sortOrderSelect \in {"published_date_asc", "published_date_desc"}) =>
        /\ ~last.threw
        /\ Len(newsContainer.cards) = Len(last.articles)
        /\ OrderedBy(sortOrderSelect, last.articles, newsContainer.cards)

\* part_001, ascending: a dated row, a row with no date and a row from before the
\* epoch come out as before-epoch, no date, dated
C7_Witness ==
    /\ variant = "part_001"
    /\ sortOrderSelect = "published_date_asc"
    /\ last.step = "resume"
    /\ Len(last.articles) = 3
    /\ last.articles[1].published_date = "2024-01-02"
    /\ last.articles[2].published_date = Null
    /\ last.articles[3].published_date = "1969-12-31"
    /\ [i \in 1..3 |-> newsContainer.cards[i].id] = << 3, 2, 1 >>

\* C8: under source_asc the sort of a load's rows completes, and the cards stand in
\* ascending order of source with a missing source counted as the empty string.
C8_MissingSourceIsEmpty ==
    (/\ last.step = "resume"
     /\ last.error = Null
     /\ last.articles # <<>>
     /\ sortOrderSelect = "source_asc") =>
        /\ ~last.threw
        /\ Len(newsContainer.cards) = Len(last.articles)
        /\ OrderedBy("source_asc", last.articles, newsContainer.cards)

\* C9: once every articles load has settled, the region shows what the most recently
\* started load wrote.  Stated for part_000 and part_001, where every load runs the
\* same handler, so that a violation owes nothing to script.js's change listener.
C9_NewestLoadWins ==
    (variant # "script.js" /\ pending = <<>>) =>
        (newestOutcome.settled /\ newsContainer = newestOutcome.region)

\* C10: with no read in flight, a displayed list stands in the order the selector
\* currently holds.
C10_ListOrderedBySelector ==
    (/\ pending = <<>>
     /\ ShowsList
     /\ sortOrderSelect \in {"published_date_asc", "published_date_desc", "source_asc"}) =>
        OrderedBy(sortOrderSelect, lastRender.articles, newsContainer.cards)

====
